---- MODULE Spec2Model ----
(***************************************************************************)
(* A model of scripts/ledger.py: the FIFO lot matching of CryptoLedger,    *)
(* the allowance allocation of get_tax_free_amount, the conversion-rate    *)
(* search of PriceFeed.get_change_factor and the per-asset loops of        *)
(* LedgerContainer.                                                        *)
(*                                                                         *)
(* Numbers.  The program computes in binary floating point.  The model     *)
(* computes in exact integers: amounts are whole units, a buy's total is a *)
(* multiple of its amount (so that total / amount is exact), and a value   *)
(* that the program obtains by a division that need not be exact (a rate   *)
(* 1 / price, an amount still_allowed / (factor - purchase_factor)) is     *)
(* kept as the pair numerator, denominator.  Rounding is not modelled.     *)
(*                                                                         *)
(* Time.  A "Date(UTC)" string is modelled by its day number; the strings  *)
(* of one export format order as their instants do.                        *)
(***************************************************************************)
EXTENDS Integers, Sequences, FiniteSets, TLC

VARIABLES
    buy_history,       \* CryptoLedger.buy_history: rows [date, amount, total]
    sell_history,      \* CryptoLedger.sell_history: rows [date, amount, total]
    open_positions,    \* CryptoLedger.open_positions: rows [date, amount, unit]
    closed_positions,  \* CryptoLedger.closed_positions
    status,            \* "importing", "done", or the exception that ended
                       \* calculate_position_from_history
    tax_query,         \* the arguments of the last get_tax_free_amount call
    tax_result,        \* and what it returned
    symbols,           \* PriceFeed.symbols: provider -> the symbols it lists
    samples,           \* what a provider's price call returns for a symbol
    feed_query,        \* the arguments of the last get_change_factor call
    feed_result,       \* and what it returned or raised
    exports,           \* asset -> the rows its export files hold
    current_rates,     \* asset -> what get_change_factor(asset, "EUR") gives
    asset_ledgers,     \* LedgerContainer.asset_ledgers
    ctor_next,         \* LedgerContainer.__init__: index of the next asset
    ctor_status,       \* "constructing", "constructed", or "raised"
    total_value        \* what get_total_portfolio_value returned or raised

ledgerVars == <<buy_history, sell_history, open_positions, closed_positions, status>>
taxVars == <<tax_query, tax_result>>
feedVars == <<symbols, samples, feed_query, feed_result>>
containerVars == <<exports, current_rates, asset_ledgers, ctor_next, ctor_status, total_value>>
vars == <<buy_history, sell_history, open_positions, closed_positions, status,
          tax_query, tax_result, symbols, samples, feed_query, feed_result,
          exports, current_rates, asset_ledgers, ctor_next, ctor_status, total_value>>

(***************************************************************************)
(* Bounds of the model.                                                    *)
(***************************************************************************)
MaxBuys == 2
MaxSells == 2

\* The values the rows of the exports are drawn from.
Dates == {1, 2}
Amounts == {1, 2}
UnitCosts == {1, 2}
Proceeds == {5}

NoValue == [kind |-> "none"]

(***************************************************************************)
(* Helpers on sequences.                                                   *)
(***************************************************************************)
RECURSIVE SumAmount(_)
SumAmount(rows) ==
    IF rows = <<>> THEN 0 ELSE Head(rows).amount + SumAmount(Tail(rows))

Abs(x) == IF x < 0 THEN -x ELSE x

Injections(n) == {p \in [1..n -> 1..n] : \A i, j \in 1..n : p[i] = p[j] => i = j}

Permuted(rows) == {[i \in 1..Len(rows) |-> rows[p[i]]] : p \in Injections(Len(rows))}

\* get_days_between_dates: |date1 - date2| in days
get_days_between_dates(date1, date2) == Abs(date1 - date2)

(***************************************************************************)
(* DataFrame.sort_values(by="Date(UTC)", ignore_index=True): the rows in   *)
(* ascending date order.  The default sort kind is quicksort, which does   *)
(* not promise an order among rows of equal date, so every ascending       *)
(* arrangement of the rows is an outcome.                                  *)
(***************************************************************************)
\* A faulty variant: the rows are left in import order.
SortValuesUnsorted(rows) == {rows}

SortValues(rows) ==
    {s \in Permuted(rows) : \A i \in 1..(Len(s) - 1) : s[i].date <= s[i + 1].date}

(***************************************************************************)
(* calculate_position_from_history, lines 123-128: every buy row becomes   *)
(* an open lot with unit = total / amount.                                 *)
(***************************************************************************)
SeedOpenPositions(buys) ==
    [i \in 1..Len(buys) |->
        [date |-> buys[i].date, amount |-> buys[i].amount,
         unit |-> buys[i].total \div buys[i].amount]]

(***************************************************************************)
(* Lines 132-137: the while loop.  idx is aggregator_index + 1, the number *)
(* of open rows added so far.  Reading open_index[aggregator_index] past   *)
(* the last row raises IndexError.                                         *)
(***************************************************************************)
RECURSIVE Aggregate(_, _, _, _)
Aggregate(open, sell_amount, idx, asset_amount) ==
    IF asset_amount < sell_amount
    THEN IF idx + 1 > Len(open)
         THEN [raised |-> "IndexError", idx |-> idx, asset_amount |-> asset_amount]
         ELSE Aggregate(open, sell_amount, idx + 1, asset_amount + open[idx + 1].amount)
    ELSE [raised |-> "no", idx |-> idx, asset_amount |-> asset_amount]

RECURSIVE SumCost(_, _)
SumCost(open, n) ==
    IF n = 0 THEN 0 ELSE open[n].amount * open[n].unit + SumCost(open, n - 1)

\* A faulty variant of the purchase price: row k is counted in full.
PurchasePriceWholeLots(open, k, remainder) == SumCost(open, k)

\* Lines 141-146: the rows before row k in full, row k less the remainder.
PurchasePrice(open, k, remainder) ==
    SumCost(open, k - 1) + (open[k].amount - remainder) * open[k].unit

\* Faulty variants of the drop: row k is dropped whatever is left of it;
\* row k is kept when nothing is left of it.
DropConsumedAlways(open, k, remainder) == SubSeq(open, k + 1, Len(open))

DropConsumedKeepsEmpty(open, k, remainder) ==
    SubSeq([open EXCEPT ![k].amount = remainder], k, Len(open))

\* Lines 148-152: shrink row k and drop the rows before it, or drop it too.
DropConsumed(open, k, remainder) ==
    IF remainder > 0
    THEN SubSeq([open EXCEPT ![k].amount = remainder], k, Len(open))
    ELSE SubSeq(open, k + 1, Len(open))

\* Lines 153-160: the closed-position row.
ClosedRow(date_of_purchase, sell, purchase_price) ==
    [purchase_date |-> date_of_purchase,
     sell_date |-> sell.date,
     holding |-> get_days_between_dates(date_of_purchase, sell.date),
     amount |-> sell.amount,
     profit |-> sell.total - purchase_price,
     purchase_price |-> purchase_price,
     sell_price |-> sell.total]

(***************************************************************************)
(* Lines 129-160: the loop over the sell rows, from row j on.  The result  *)
(* is the ledger as the loop leaves it: complete, or as it was when the    *)
(* exception was raised.                                                   *)
(***************************************************************************)
RECURSIVE MatchSells(_, _, _, _)
MatchSells(open, closed, sells, j) ==
    IF j > Len(sells)
    THEN [open |-> open, closed |-> closed, status |-> "done"]
    ELSE LET agg == Aggregate(open, sells[j].amount, 0, 0)
             k == agg.idx
             remainder == agg.asset_amount - sells[j].amount
         IN  IF agg.raised # "no"
             THEN [open |-> open, closed |-> closed, status |-> agg.raised]
             ELSE MatchSells(DropConsumed(open, k, remainder),
                             Append(closed,
                                    ClosedRow(open[k].date, sells[j],
                                              PurchasePrice(open, k, remainder))),
                             sells, j + 1)

\* calculate_position_from_history on the sorted histories.
Match(buys, sells) == MatchSells(SeedOpenPositions(buys), <<>>, sells, 1)

\* get_active_amount
get_active_amount(buys, sells) == SumAmount(buys) - SumAmount(sells)

(***************************************************************************)
(* The ledger of one asset.                                                *)
(***************************************************************************)
NewLedger ==
    /\ buy_history = <<>>
    /\ sell_history = <<>>
    /\ open_positions = <<>>
    /\ closed_positions = <<>>
    /\ status = "importing"
    /\ tax_query = NoValue
    /\ tax_result = NoValue

\* A price feed that lists nothing and has not been asked anything.
NoFeed ==
    /\ symbols = [p \in {"binance", "kucoin"} |-> {}]
    /\ samples = <<>>
    /\ feed_query = NoValue
    /\ feed_result = NoValue

\* No container is being constructed.
NoContainer ==
    /\ exports = <<>>
    /\ current_rates = <<>>
    /\ asset_ledgers = <<>>
    /\ ctor_next = 1
    /\ ctor_status = "none"
    /\ total_value = NoValue

InitLedger == NewLedger /\ NoFeed /\ NoContainer

\* import_from_file, line 190, with add_order_to_history: one buy row is
\* appended (the counter asset is the reporting currency: factor 1).
ImportBuy ==
    /\ status = "importing"
    /\ Len(buy_history) < MaxBuys
    /\ \E d \in Dates, a \in Amounts, u \in UnitCosts :
          buy_history' = Append(buy_history, [date |-> d, amount |-> a, total |-> a * u])
    /\ UNCHANGED <<sell_history, open_positions, closed_positions, status, taxVars, feedVars, containerVars>>

\* import_from_file, line 193, with add_order_to_history: one sell row.
ImportSell ==
    /\ status = "importing"
    /\ Len(sell_history) < MaxSells
    /\ \E d \in Dates, a \in Amounts, t \in Proceeds :
          sell_history' = Append(sell_history, [date |-> d, amount |-> a, total |-> t])
    /\ UNCHANGED <<buy_history, open_positions, closed_positions, status, taxVars, feedVars, containerVars>>

\* calculate_position_from_history
CalculatePosition ==
    /\ status = "importing"
    /\ \E buys \in SortValues(buy_history), sells \in SortValues(sell_history) :
          LET r == Match(buys, sells)
          IN  /\ buy_history' = buys
              /\ sell_history' = sells
              /\ open_positions' = r.open
              /\ closed_positions' = r.closed
              /\ status' = r.status
    /\ UNCHANGED <<taxVars, feedVars, containerVars>>

NextLedger == ImportBuy \/ ImportSell \/ CalculatePosition

SpecLedger == InitLedger /\ [][NextLedger]_vars

(***************************************************************************)
(* get_tax_free_amount.                                                    *)
(***************************************************************************)
TAX_ALLOWANCE == 600

\* The holding time, in days, after which a lot is exempt (line 242).
HOLDING_LIMIT == 365

\* Line 249: total_amount * factor - purchase_price
PotentialProfit(lot, factor) == lot.amount * factor - lot.amount * lot.unit

\* Line 250: the lot fits in what is left of the allowance.
FitsAllowance(profit_so_far, new_profit, potential_profit) ==
    profit_so_far + new_profit + potential_profit < TAX_ALLOWANCE

\* A faulty variant: the profit of the lots already taken is forgotten.
StillAllowedIgnoringNewProfit(profit_so_far, new_profit) == TAX_ALLOWANCE - profit_so_far

\* Line 254: still_allowed
StillAllowed(profit_so_far, new_profit) == TAX_ALLOWANCE - profit_so_far - new_profit

(***************************************************************************)
(* Lines 241-257: the loop over the open rows, from row `row` on.          *)
(* still_tax_free is whole + num / den: the lots taken in full, and the    *)
(* quotient of line 255.  A zero divisor in line 255 gives no amount: the  *)
(* quotient of numpy floats is inf or nan (with a warning), of Python      *)
(* floats a ZeroDivisionError; both are the outcome "DivisionByZero".      *)
(***************************************************************************)
RECURSIVE TaxWalk(_, _, _, _, _, _, _, _)
TaxWalk(open, row, current_time, factor, profit_so_far, generally_tax_free, still_tax_free, new_profit) ==
    IF row > Len(open)
    THEN [kind |-> "returned", whole |-> still_tax_free, num |-> 0, den |-> 1,
          new_profit |-> new_profit, generally_tax_free |-> generally_tax_free]
    ELSE IF get_days_between_dates(current_time, open[row].date) > HOLDING_LIMIT
    THEN TaxWalk(open, row + 1, current_time, factor, profit_so_far,
                 generally_tax_free + open[row].amount, still_tax_free, new_profit)
    ELSE LET purchase_factor == open[row].unit
             total_amount == open[row].amount
             potential_profit == PotentialProfit(open[row], factor)
             still_allowed == StillAllowed(profit_so_far, new_profit)
         IN  IF FitsAllowance(profit_so_far, new_profit, potential_profit)
             THEN TaxWalk(open, row + 1, current_time, factor, profit_so_far,
                          generally_tax_free, still_tax_free + total_amount,
                          new_profit + potential_profit)
             ELSE IF factor - purchase_factor = 0
             THEN [kind |-> "DivisionByZero", whole |-> still_tax_free,
                   num |-> still_allowed, den |-> 0,
                   new_profit |-> new_profit, generally_tax_free |-> generally_tax_free]
             ELSE [kind |-> "returned", whole |-> still_tax_free,
                   num |-> still_allowed, den |-> factor - purchase_factor,
                   new_profit |-> new_profit + still_allowed,
                   generally_tax_free |-> generally_tax_free]

\* The arguments and the environment of the calls the model makes.
ProfitsSoFar == {0, 400, 600, 700}
Rates == {1, 2, 201}
Nows == {2, 367}

\* get_tax_free_amount(profit_so_far), with the current rate that
\* price_feed.get_change_factor returns and the current time.  The call
\* reads the ledger and changes nothing in it, so a behaviour makes one call.
GetTaxFreeAmount ==
    /\ status = "done"
    /\ tax_query = NoValue
    /\ \E profit_so_far \in ProfitsSoFar, factor \in Rates, current_time \in Nows :
          /\ tax_query' = [kind |-> "call", profit_so_far |-> profit_so_far,
                           factor |-> factor, current_time |-> current_time]
          /\ tax_result' = TaxWalk(open_positions, 1, current_time, factor,
                                   profit_so_far, 0, 0, 0)
    /\ UNCHANGED <<ledgerVars, feedVars, containerVars>>

\* get_tax_free_amount when price_feed.get_change_factor raises (line 240).
GetTaxFreeAmountNoRate ==
    /\ status = "done"
    /\ tax_query = NoValue
    /\ \E profit_so_far \in ProfitsSoFar :
          /\ tax_query' = [kind |-> "call", profit_so_far |-> profit_so_far,
                           factor |-> "none", current_time |-> "none"]
          /\ tax_result' = [kind |-> "ValueError"]
    /\ UNCHANGED <<ledgerVars, feedVars, containerVars>>

NextTax ==
    ImportBuy \/ ImportSell \/ CalculatePosition \/ GetTaxFreeAmount \/ GetTaxFreeAmountNoRate

SpecTax == InitLedger /\ [][NextTax]_vars

(***************************************************************************)
(* PriceFeed.                                                              *)
(*                                                                         *)
(* A symbol is the pair <<lead, trail>>: the string lead + delimiter +     *)
(* trail of the provider.  No name of the model is the beginning of        *)
(* another, so symbol.startswith(currency) holds exactly of the symbols    *)
(* led by the currency.  A rate is the pair num / den.                     *)
(***************************************************************************)
\* self.clients.keys(), in the order of the dictionary
Providers == <<"binance", "kucoin">>

FALLBACK_CURRENCY(provider) == IF provider = "binance" THEN "BUSD" ELSE "USDT"

\* The provider the second leg of a bridge is asked of (line 42).
PINNED_PROVIDER == "binance"

\* get_historical_symbol_price and get_current_symbol_price: the first
\* price of the answer, or ValueError when the answer is empty.
get_historical_symbol_price(provider, symbol) ==
    IF samples[<<provider, symbol>>].kind = "empty"
    THEN [kind |-> "raised", error |-> "NoValues"]
    ELSE [kind |-> "price", price |-> samples[<<provider, symbol>>].price]

get_current_symbol_price(provider, symbol) ==
    IF samples[<<provider, symbol>>].kind = "empty"
    THEN [kind |-> "raised", error |-> "NoValues"]
    ELSE [kind |-> "price", price |-> samples[<<provider, symbol>>].price]

\* Lines 45-56: the price of the symbol found, inverted when the symbol is
\* led by the currency; ValueError for a price of 0.
SymbolRate(provider, symbol, currency, date) ==
    LET symbol_price == IF date THEN get_historical_symbol_price(provider, symbol)
                        ELSE get_current_symbol_price(provider, symbol)
    IN  IF symbol_price.kind = "raised" THEN symbol_price
        ELSE IF symbol_price.price = 0 THEN [kind |-> "raised", error |-> "NoValues"]
        ELSE IF symbol[1] = currency
        THEN [kind |-> "rate", num |-> 1, den |-> symbol_price.price]
        ELSE [kind |-> "rate", num |-> symbol_price.price, den |-> 1]

\* Line 44: asset_to_fallback * fallback_to_currency
Product(a, b) == [kind |-> "rate", num |-> a.num * b.num, den |-> a.den * b.den]

\* Lines 57-60: no provider gave a rate.
NoRateFound(die_on_failure) ==
    IF die_on_failure THEN [kind |-> "raised", error |-> "NoSymbol"]
    ELSE [kind |-> "sentinel"]

(***************************************************************************)
(* get_change_factor, from the provider of index i on.  An exception of a  *)
(* price call or of a recursive call ends the whole call.                  *)
(***************************************************************************)
RECURSIVE get_change_factor(_, _, _, _, _, _)
get_change_factor(asset, currency, date, die_on_failure, force_provider, i) ==
    IF i > Len(Providers) THEN NoRateFound(die_on_failure)
    ELSE LET provider == Providers[i]
             fallback == FALLBACK_CURRENCY(provider)
             next == get_change_factor(asset, currency, date, die_on_failure, force_provider, i + 1)
         IN  IF force_provider # "none" /\ force_provider # provider THEN next
             ELSE IF <<currency, asset>> \in symbols[provider]
             THEN SymbolRate(provider, <<currency, asset>>, currency, date)
             ELSE IF <<asset, currency>> \in symbols[provider]
             THEN SymbolRate(provider, <<asset, currency>>, currency, date)
             ELSE IF currency # fallback /\ asset # fallback
             THEN LET asset_to_fallback ==
                          get_change_factor(asset, fallback, date, FALSE, provider, 1)
                      fallback_to_currency ==
                          get_change_factor(fallback, currency, date, FALSE, PINNED_PROVIDER, 1)
                  IN  IF asset_to_fallback.kind = "raised" THEN asset_to_fallback
                      ELSE IF fallback_to_currency.kind = "raised" THEN fallback_to_currency
                      ELSE IF asset_to_fallback.kind = "rate" /\ fallback_to_currency.kind = "rate"
                      THEN Product(asset_to_fallback, fallback_to_currency)
                      ELSE next
             ELSE next

\* The symbols a provider may list in the model, and what its price call
\* may answer for a listed symbol: nothing, a price of 0, or the price.
Listings ==
    { <<"binance", <<"ERG", "EUR">>>>, <<"binance", <<"ERG", "BUSD">>>>,
      <<"binance", <<"EUR", "BUSD">>>>, <<"binance", <<"USDT", "BUSD">>>>,
      <<"binance", <<"EUR", "USDT">>>>, <<"kucoin", <<"ERG", "USDT">>>> }

Answers ==
    {[kind |-> "empty", price |-> 0], [kind |-> "price", price |-> 0],
     [kind |-> "price", price |-> 3]}

\* The calls the model makes: the call of get_current_value and of
\* add_order_to_history, and the probe calls of lines 38-42.
Calls ==
    { [asset |-> "ERG", currency |-> "EUR", die_on_failure |-> TRUE, force_provider |-> "none"],
      [asset |-> "ERG", currency |-> "EUR", die_on_failure |-> FALSE, force_provider |-> "none"],
      [asset |-> "ERG", currency |-> "BUSD", die_on_failure |-> FALSE, force_provider |-> "binance"],
      [asset |-> "BUSD", currency |-> "EUR", die_on_failure |-> FALSE, force_provider |-> "binance"],
      [asset |-> "ERG", currency |-> "USDT", die_on_failure |-> FALSE, force_provider |-> "kucoin"],
      [asset |-> "USDT", currency |-> "EUR", die_on_failure |-> FALSE, force_provider |-> "binance"] }

\* PriceFeed.__init__: the symbol lists are read from the providers.
InitFeed ==
    /\ NewLedger
    /\ NoContainer
    /\ \E listed \in SUBSET Listings :
          /\ symbols = [p \in {"binance", "kucoin"} |-> {l[2] : l \in {x \in listed : x[1] = p}}]
          /\ samples \in [listed -> Answers]
    /\ feed_query = NoValue
    /\ feed_result = NoValue

\* One call of get_change_factor, for the current rate or for a date.
GetChangeFactor ==
    /\ feed_query = NoValue
    /\ \E call \in Calls, date \in BOOLEAN :
          /\ feed_query' = [kind |-> "call", asset |-> call.asset, currency |-> call.currency,
                            date |-> date, die_on_failure |-> call.die_on_failure,
                            force_provider |-> call.force_provider]
          /\ feed_result' = get_change_factor(call.asset, call.currency, date,
                                              call.die_on_failure, call.force_provider, 1)
    /\ UNCHANGED <<ledgerVars, taxVars, symbols, samples, containerVars>>

NextFeed == GetChangeFactor

SpecFeed == InitFeed /\ [][NextFeed]_vars

(***************************************************************************)
(* LedgerContainer.                                                        *)
(***************************************************************************)
\* LedgerContainer.asset_names (three of the names of asset_list)
asset_names == <<"ERG", "ETH", "BTC">>

AssetSet == {asset_names[i] : i \in 1..Len(asset_names)}

\* What the export files may hold of one asset: rows of buys and of sells.
\* `lookup` tells whether add_order_to_history gets its change factor (1 for
\* a row in the reporting currency) or get_change_factor raises.
ExportChoices ==
    { [buys |-> <<[date |-> 1, amount |-> 2, total |-> 2, lookup |-> "ok"]>>,
       sells |-> <<>>],
      [buys |-> <<[date |-> 1, amount |-> 2, total |-> 2, lookup |-> "ok"]>>,
       sells |-> <<[date |-> 2, amount |-> 1, total |-> 5, lookup |-> "ok"]>>],
      [buys |-> <<[date |-> 1, amount |-> 1, total |-> 1, lookup |-> "ok"]>>,
       sells |-> <<[date |-> 2, amount |-> 2, total |-> 5, lookup |-> "ok"]>>],
      [buys |-> <<[date |-> 1, amount |-> 2, total |-> 2, lookup |-> "raises"]>>,
       sells |-> <<>>] }

RateChoices == {[kind |-> "rate", rate |-> 3], [kind |-> "raised", rate |-> 0]}

\* Lines 177-195 for the rows of one asset: the histories in import order,
\* or the exception of the first failed lookup.
ImportFromFile(export) ==
    IF \E i \in 1..Len(export.buys) : export.buys[i].lookup = "raises"
    THEN [raised |-> TRUE, buys |-> <<>>, sells |-> <<>>]
    ELSE IF \E i \in 1..Len(export.sells) : export.sells[i].lookup = "raises"
    THEN [raised |-> TRUE, buys |-> <<>>, sells |-> <<>>]
    ELSE [raised |-> FALSE,
          buys |-> [i \in 1..Len(export.buys) |->
                      [date |-> export.buys[i].date, amount |-> export.buys[i].amount,
                       total |-> export.buys[i].total]],
          sells |-> [i \in 1..Len(export.sells) |->
                      [date |-> export.sells[i].date, amount |-> export.sells[i].amount,
                       total |-> export.sells[i].total]]]

InitContainer ==
    /\ NewLedger
    /\ NoFeed
    /\ exports \in [AssetSet -> ExportChoices]
    /\ current_rates \in [AssetSet -> RateChoices]
    /\ asset_ledgers = <<>>
    /\ ctor_next = 1
    /\ ctor_status = "constructing"
    /\ total_value = NoValue

\* LedgerContainer.__init__, lines 272-278: one turn of the loop over the
\* assets.  An exception of import_from_file or of
\* calculate_position_from_history leaves the constructor.
BuildLedger ==
    /\ ctor_status = "constructing"
    /\ ctor_next <= Len(asset_names)
    /\ LET a == asset_names[ctor_next]
           imported == ImportFromFile(exports[a])
       IN  IF imported.raised
           THEN /\ ctor_status' = "raised"
                /\ UNCHANGED <<asset_ledgers, ctor_next>>
           ELSE \E buys \in SortValues(imported.buys), sells \in SortValues(imported.sells) :
                   LET r == Match(buys, sells)
                   IN  IF r.status # "done"
                       THEN /\ ctor_status' = "raised"
                            /\ UNCHANGED <<asset_ledgers, ctor_next>>
                       ELSE /\ asset_ledgers' =
                                  [x \in DOMAIN asset_ledgers \cup {a} |->
                                      IF x = a
                                      THEN [buy_history |-> buys, sell_history |-> sells,
                                            open_positions |-> r.open,
                                            closed_positions |-> r.closed]
                                      ELSE asset_ledgers[x]]
                            /\ ctor_next' = ctor_next + 1
                            /\ ctor_status' = IF ctor_next = Len(asset_names)
                                              THEN "constructed" ELSE "constructing"
    /\ UNCHANGED <<ledgerVars, taxVars, feedVars, exports, current_rates, total_value>>

\* get_current_value of one ledger, at a rate
get_current_value(ledger, rate) ==
    get_active_amount(ledger.buy_history, ledger.sell_history) * rate

\* get_total_portfolio_value, lines 313-317, from the asset of index i on.
RECURSIVE TotalValue(_, _)
TotalValue(i, total) ==
    IF i > Len(asset_names) THEN [kind |-> "value", value |-> total]
    ELSE IF current_rates[asset_names[i]].kind = "raised"
    THEN [kind |-> "raised", value |-> 0]
    ELSE TotalValue(i + 1,
                    total + get_current_value(asset_ledgers[asset_names[i]],
                                              current_rates[asset_names[i]].rate))

GetTotalPortfolioValue ==
    /\ ctor_status = "constructed"
    /\ total_value = NoValue
    /\ total_value' = TotalValue(1, 0)
    /\ UNCHANGED <<ledgerVars, taxVars, feedVars, exports, current_rates, asset_ledgers,
                   ctor_next, ctor_status>>

NextContainer == BuildLedger \/ GetTotalPortfolioValue

SpecContainer == InitContainer /\ [][NextContainer]_vars

(***************************************************************************)
(* Definitions the properties are stated with.                             *)
(***************************************************************************)
Calculated == status # "importing"

Outcome == [open |-> open_positions, closed |-> closed_positions, status |-> status]

\* Some sell, taken in the order of sells, asks for more than the buys leave.
RECURSIVE OverSells(_, _, _)
OverSells(buys, sells, j) ==
    /\ j <= Len(sells)
    /\ \/ SumAmount(SubSeq(sells, 1, j)) > SumAmount(buys)
       \/ OverSells(buys, sells, j + 1)

\* The unit costs of the bought units, one entry per unit, in buy order.
RECURSIVE UnitsOf(_)
UnitsOf(buys) ==
    IF buys = <<>> THEN <<>>
    ELSE [i \in 1..Head(buys).amount |-> Head(buys).total \div Head(buys).amount]
         \o UnitsOf(Tail(buys))

RECURSIVE SumRange(_, _, _)
SumRange(seq, from, to) ==
    IF from > to THEN 0 ELSE seq[from] + SumRange(seq, from + 1, to)

\* The FIFO cost of the units that sell j disposes of.
FifoCost(buys, sells, j) ==
    LET before == SumAmount(SubSeq(sells, 1, j - 1))
    IN  SumRange(UnitsOf(buys), before + 1, before + sells[j].amount)

\* The lots with the first n units taken away.
RECURSIVE RemoveFront(_, _)
RemoveFront(lots, n) ==
    IF n = 0 \/ lots = <<>> THEN lots
    ELSE IF n >= Head(lots).amount
         THEN RemoveFront(Tail(lots), n - Head(lots).amount)
         ELSE <<[Head(lots) EXCEPT !.amount = Head(lots).amount - n]>> \o Tail(lots)

\* Rows of equal date are equal rows.
TiesIdentical(rows) ==
    \A i, j \in 1..Len(rows) : rows[i].date = rows[j].date => rows[i] = rows[j]

(***************************************************************************)
(* C1.  When a sell asks for more than the open lots hold, the computation *)
(* ends with InsufficientLots, not with an index past the end of the       *)
(* queue.                                                                  *)
(***************************************************************************)
C1_OverSellRaisesInsufficientLots ==
    (Calculated /\ OverSells(buy_history, sell_history, 1)) => status = "InsufficientLots"

(***************************************************************************)
(* C2.  After the computation the open amounts and the closed amounts add  *)
(* up to the bought amounts, and get_active_amount() is the sum of the     *)
(* open amounts.                                                           *)
(***************************************************************************)
C2_Conservation ==
    status = "done" =>
        /\ SumAmount(open_positions) + SumAmount(closed_positions) = SumAmount(buy_history)
        /\ get_active_amount(buy_history, sell_history) = SumAmount(open_positions)

C2_Witness ==
    /\ status = "done"
    /\ Len(closed_positions) = 2
    /\ Len(open_positions) = 1
    /\ open_positions[1].amount < buy_history[Len(buy_history)].amount

(***************************************************************************)
(* C3.  Whatever the order of the rows of the two histories, the           *)
(* computation gives the same open lots and the same closed lots.          *)
(***************************************************************************)
SameForEveryRowOrder ==
    \A b \in Permuted(buy_history), s \in Permuted(sell_history) :
        \A sb \in SortValues(b), ss \in SortValues(s) : Match(sb, ss) = Outcome

C3_OrderIndependent == Calculated => SameForEveryRowOrder

\* C3 as amended: the same, for histories whose rows of equal date are
\* equal rows (in particular for histories of distinct timestamps).
C3_OrderIndependentWithoutTies ==
    (Calculated /\ TiesIdentical(buy_history) /\ TiesIdentical(sell_history))
        => SameForEveryRowOrder

C3_Witness ==
    /\ status = "done"
    /\ Len(buy_history) = 2 /\ buy_history[1].date < buy_history[2].date
    /\ buy_history[1].total \div buy_history[1].amount
         # buy_history[2].total \div buy_history[2].amount
    /\ Len(sell_history) = 2 /\ sell_history[1].date < sell_history[2].date
    /\ sell_history[1].amount # sell_history[2].amount

(***************************************************************************)
(* C5.  Every closed lot's cost basis is the FIFO cost of the units its    *)
(* sell disposes of, and its profit is the proceeds less that cost.        *)
(***************************************************************************)
C5_FifoCostBasis ==
    status = "done" =>
        /\ Len(closed_positions) = Len(sell_history)
        /\ \A j \in 1..Len(closed_positions) :
              /\ closed_positions[j].purchase_price = FifoCost(buy_history, sell_history, j)
              /\ closed_positions[j].profit
                   = sell_history[j].total - FifoCost(buy_history, sell_history, j)

\* The second sell takes what the first left of lot 1 and a part of lot 2.
C5_Witness ==
    /\ status = "done"
    /\ Len(buy_history) = 2 /\ Len(closed_positions) = 2
    /\ buy_history[1].amount = 2 /\ buy_history[2].amount = 2
    /\ buy_history[1].total # buy_history[2].total
    /\ closed_positions[1].amount = 1 /\ closed_positions[2].amount = 2
    /\ closed_positions[2].purchase_price
         = (buy_history[1].total \div 2) + (buy_history[2].total \div 2)

(***************************************************************************)
(* C9.  After sells that never over-sell, the open lots are the sorted     *)
(* buy lots with the sold amount taken from the front.                     *)
(***************************************************************************)
C9_OpenIsUnconsumedRemainder ==
    status = "done" =>
        open_positions = RemoveFront(SeedOpenPositions(buy_history), SumAmount(sell_history))

\* A sell that ends exactly at the end of lot 1: the lot goes, lot 2 stays whole.
C9_Witness ==
    /\ status = "done"
    /\ Len(buy_history) = 2 /\ Len(sell_history) = 2
    /\ SumAmount(sell_history) = buy_history[1].amount
    /\ open_positions = <<SeedOpenPositions(buy_history)[2]>>

(***************************************************************************)
(* Definitions for the allowance properties.                               *)
(***************************************************************************)
ShortTermLots(open, current_time) ==
    SelectSeq(open, LAMBDA lot : get_days_between_dates(current_time, lot.date) <= HOLDING_LIMIT)

RECURSIVE PrefixProfit(_, _, _)
PrefixProfit(lots, n, factor) ==
    IF n = 0 THEN 0
    ELSE (lots[n].amount * factor - lots[n].amount * lots[n].unit)
         + PrefixProfit(lots, n - 1, factor)

\* With the lots before lot n taken in full, taking lot n in full stays
\* under the allowance.
TakenInFull(lots, n, profit_so_far, factor) ==
    profit_so_far + PrefixProfit(lots, n, factor) < TAX_ALLOWANCE

\* The first lot that is not taken in full; 0 when every lot is.
FirstCut(lots, profit_so_far, factor) ==
    LET cuts == {n \in 1..Len(lots) : ~TakenInFull(lots, n, profit_so_far, factor)}
    IN  IF cuts = {} THEN 0 ELSE CHOOSE n \in cuts : \A m \in cuts : n <= m

\* The amount of the claim: the lots before the cut in full, and of the lot
\* at the cut still_allowed / (rate - unit cost), as whole + num / den.
PrefixAmount(lots, profit_so_far, factor) ==
    LET k == FirstCut(lots, profit_so_far, factor)
    IN  IF k = 0
        THEN [whole |-> SumAmount(lots), num |-> 0, den |-> 1]
        ELSE [whole |-> SumAmount(SubSeq(lots, 1, k - 1)),
              num |-> TAX_ALLOWANCE - profit_so_far - PrefixProfit(lots, k - 1, factor),
              den |-> factor - lots[k].unit]

TaxCallEnded == tax_result.kind \in {"returned", "DivisionByZero"}

(***************************************************************************)
(* C6.  get_tax_free_amount returns the amount of a FIFO prefix of the     *)
(* lots held at most 365 days: the lots before the first one that would    *)
(* meet or exceed the allowance in full, of that one                       *)
(* still_allowed / (rate - unit cost), and nothing of the lots after it.   *)
(***************************************************************************)
C6_TaxFreePrefix ==
    TaxCallEnded =>
        LET want == PrefixAmount(ShortTermLots(open_positions, tax_query.current_time),
                                 tax_query.profit_so_far, tax_query.factor)
        IN  /\ tax_result.whole = want.whole
            /\ (tax_result.kind = "DivisionByZero") = (want.den = 0)
            /\ tax_result.num * want.den = want.num * tax_result.den

\* The first lot is taken in full and the second in part.
C6_Witness ==
    /\ tax_result.kind = "returned"
    /\ tax_result.whole > 0 /\ tax_result.num > 0
    /\ tax_result.num < tax_result.den * open_positions[2].amount
    /\ FirstCut(ShortTermLots(open_positions, tax_query.current_time),
                tax_query.profit_so_far, tax_query.factor) = 2

(***************************************************************************)
(* C10.  get_tax_free_amount divides by no zero and returns an amount      *)
(* between 0 and the sum of the open lots held at most 365 days.           *)
(***************************************************************************)
C10_TaxFreeAmountInRange ==
    TaxCallEnded =>
        LET held == SumAmount(ShortTermLots(open_positions, tax_query.current_time))
            scaled == (tax_result.whole * tax_result.den + tax_result.num) * tax_result.den
        IN  /\ tax_result.kind = "returned"
            /\ 0 <= scaled
            /\ scaled <= held * tax_result.den * tax_result.den

(***************************************************************************)
(* Definitions for the price-feed properties.                              *)
(***************************************************************************)
ProviderSet == {Providers[i] : i \in 1..Len(Providers)}

Lists(provider, a, c) ==
    <<c, a>> \in symbols[provider] \/ <<a, c>> \in symbols[provider]

\* The rate a -> c that the provider's own symbol gives, when it lists one
\* and has a price for it.
HasPrice(provider, symbol) ==
    /\ symbol \in symbols[provider]
    /\ samples[<<provider, symbol>>].kind = "price"
    /\ samples[<<provider, symbol>>].price # 0

DirectRate(provider, a, c) ==
    IF HasPrice(provider, <<c, a>>)
    THEN [kind |-> "rate", num |-> 1, den |-> samples[<<provider, <<c, a>>>>].price]
    ELSE IF HasPrice(provider, <<a, c>>)
    THEN [kind |-> "rate", num |-> samples[<<provider, <<a, c>>>>].price, den |-> 1]
    ELSE [kind |-> "none"]

Times(a, b) ==
    IF a.kind = "rate" /\ b.kind = "rate"
    THEN [kind |-> "rate", num |-> a.num * b.num, den |-> a.den * b.den]
    ELSE [kind |-> "none"]

\* The second leg, fallback -> currency, on the pinned provider: by its own
\* symbol, or over that provider's fallback currency.
SecondLeg(fallback, c) ==
    IF Lists("binance", fallback, c) \/ fallback = "BUSD"
    THEN DirectRate("binance", fallback, c)
    ELSE Times(DirectRate("binance", fallback, "BUSD"), DirectRate("binance", "BUSD", c))

\* The bridge asset -> fallback -> currency of one provider.
BridgeRate(provider, a, c) ==
    LET fb == IF provider = "binance" THEN "BUSD" ELSE "USDT"
    IN  Times(DirectRate(provider, a, fb), SecondLeg(fb, c))

SameRate(r, q) == r.kind = "rate" /\ q.kind = "rate" /\ r.num * q.den = q.num * r.den

\* A call as get_current_value and add_order_to_history make it, for a pair
\* that no provider lists.
UnlistedPairCall ==
    /\ feed_query.kind = "call"
    /\ feed_query.die_on_failure /\ feed_query.force_provider = "none"
    /\ \A p \in ProviderSet : ~Lists(p, feed_query.asset, feed_query.currency)

(***************************************************************************)
(* C7.  For a pair that no provider lists, get_change_factor returns the   *)
(* product of the two legs of a bridge whenever both legs of some bridge   *)
(* can be resolved, and fails, with RateNotFound, only if none can.        *)
(***************************************************************************)
C7_BridgeWheneverLegsResolve ==
    UnlistedPairCall =>
        LET a == feed_query.asset
            c == feed_query.currency
            good == {p \in ProviderSet : BridgeRate(p, a, c).kind = "rate"}
        IN  /\ good # {} => \E p \in good : SameRate(feed_result, BridgeRate(p, a, c))
            /\ (feed_result.kind = "raised" /\ feed_result.error = "NoSymbol") => good = {}

(***************************************************************************)
(* C8.  A call with die_on_failure = False never raises: whatever fails,   *)
(* it returns the no-rate value.                                           *)
(***************************************************************************)
C8_ProbeNeverRaises ==
    (feed_query.kind = "call" /\ ~feed_query.die_on_failure) => feed_result.kind # "raised"

(***************************************************************************)
(* Definitions for the portfolio property.                                 *)
(***************************************************************************)
\* The import and the recomputation of the asset, taken alone, succeed.
BuildsAlone(a) ==
    /\ ~ImportFromFile(exports[a]).raised
    /\ SumAmount(exports[a].sells) <= SumAmount(exports[a].buys)

PricedAlone(a) == current_rates[a].kind = "rate"

ConstructionEnded == ctor_status \in {"constructed", "raised"}

(***************************************************************************)
(* C4.  An error in the import, the recomputation or the pricing of one    *)
(* asset stops that asset only: the ledger of every other asset is built   *)
(* and the portfolio value of the other assets is still given.             *)
(***************************************************************************)
C4_FailureStaysWithItsAsset ==
    /\ ConstructionEnded => \A a \in AssetSet : BuildsAlone(a) => a \in DOMAIN asset_ledgers
    /\ total_value.kind # "raised"


(***************************************************************************)
(* C11.  In every closed lot the date of purchase is not later than the    *)
(* date of sell: no sell is matched against a lot bought after it.         *)
(***************************************************************************)
C11_AcquiredBeforeDisposed ==
    \A j \in 1..Len(closed_positions) :
        closed_positions[j].purchase_date <= closed_positions[j].sell_date

====
